---- MODULE Spec2Model ----
(***************************************************************************)
(* A model of the aleo-std instrumentation utilities.                      *)
(*                                                                         *)
(* timer/src/lib.rs: the hierarchical Timer (new, lap, finish, Drop), the  *)
(* process-wide nesting counter NUM_INDENT and the duration rendering.     *)
(*                                                                         *)
(* Representation choices                                                  *)
(*  - An Instant is a natural number of nanoseconds; a Duration is the     *)
(*    difference of two Instants.  The clock `now` is what Instant::now()  *)
(*    returns; it only moves forward (Instant is monotonic).               *)
(*  - NUM_INDENT is a usize.  It is represented by the signed residue of   *)
(*    its value modulo 2^64: the residue r >= 0 is the value r, and the    *)
(*    residue r < 0 is the wrapped value 2^64 + r.  fetch_add(1) and       *)
(*    fetch_sub(1) are wrapping, which on residues is r + 1 and r - 1.     *)
(*  - An Option is a sequence of length at most one: <<>> is None and      *)
(*    <<v>> is Some(v).                                                    *)
(*  - stdout is the sequence `out` of the lines printed so far.  A line is *)
(*    the record of the fields that Timer::format lays out: the status     *)
(*    word, the number of pad characters, the user message and the         *)
(*    rendered duration (colour and column padding are not represented).   *)
(***************************************************************************)
EXTENDS Integers, Sequences, FiniteSets, TLC

VARIABLES
    now,          \* the monotonic clock read by Instant::now()
    NUM_INDENT,   \* the process-wide nesting-depth counter
    timers,       \* the Timer objects, by identity
    out,          \* the lines printed to stdout, in order
    calls,        \* per Timer: how often lap and finish were called, whether drop ran
    pc,           \* per thread: the position inside Timer::finish
    dur,          \* a Duration handed to Timer::elapsed / Timer::elapsed_colored
    rendered,     \* the results of rendering dur
    item,         \* the item a #[timed] attribute is applied to
    tokens,       \* what the timed attribute macro returns for item
    exec,         \* a call of the function that timed has rewritten
    attr,         \* the arguments and the function of a #[time] attribute
    timeOut,      \* what the time attribute macro returns for attr
    env,          \* the environment and arguments of a storage directory query
    path          \* the PathBuf the storage directory query returns

\* The state of the attribute macros and of the storage queries.
ext == <<item, tokens, exec, attr, timeOut, env, path>>

vars == <<now, NUM_INDENT, timers, out, calls, pc, dur, rendered, ext>>

----------------------------------------------------------------------------
(* Bounds of the model *)

MaxTimers == 2        \* Timer objects constructed in one behaviour of Spec
MaxCalls == 3         \* lap and finish calls in one behaviour of Spec
MaxTime == 3          \* SpecLife: the clock stops advancing here
LifeCalls == 3        \* lap and finish calls in one behaviour of SpecLife
NumThreads == 2       \* SpecConc: threads sharing the Timers
FmtSpan == 2          \* SpecFmt: durations this close to each breakpoint

TimerIds == 1..MaxTimers
Threads == 1..NumThreads

None == <<>>
Some(v) == <<v>>

Names == {"Load"}
ExtraInfos == {None, Some("n=42")}
Messages == {None, Some("done")}
LapMessages == {None, Some("phase2")}

----------------------------------------------------------------------------
(* core::time::Duration and std::time::Instant *)

NANOS_PER_SEC == 1000000000
NANOS_PER_MILLI == 1000000
NANOS_PER_MICRO == 1000

\* A Duration is whole seconds plus sub-second nanoseconds.
as_secs(d) == d.secs
subsec_nanos(d) == d.nanos
subsec_micros(d) == d.nanos \div NANOS_PER_MICRO
subsec_millis(d) == d.nanos \div NANOS_PER_MILLI

\* The Duration between two Instants (later - earlier).
DurationBetween(later, earlier) ==
    [secs |-> (later - earlier) \div NANOS_PER_SEC,
     nanos |-> (later - earlier) % NANOS_PER_SEC]

\* Instant::elapsed at clock reading read.
InstantElapsed(self, read) == DurationBetween(read, self)

AsNanos(d) == d.secs * NANOS_PER_SEC + d.nanos

----------------------------------------------------------------------------
(* Timer::elapsed and Timer::elapsed_colored *)

DigitChar(d) ==
    CASE d = 0 -> "0" [] d = 1 -> "1" [] d = 2 -> "2" [] d = 3 -> "3"
      [] d = 4 -> "4" [] d = 5 -> "5" [] d = 6 -> "6" [] d = 7 -> "7"
      [] d = 8 -> "8" [] d = 9 -> "9"

\* "{}" of an unsigned integer: its decimal digits, no padding.
RECURSIVE Display(_)
Display(n) == IF n < 10 THEN DigitChar(n)
              ELSE Display(n \div 10) \o DigitChar(n % 10)

RECURSIVE Fill(_, _)
Fill(c, k) == IF k <= 0 THEN "" ELSE c \o Fill(c, k - 1)

\* "{:0>3}": right-aligned in a field of at least 3, filled with '0'.
Pad3(n) == Fill("0", 3 - Len(Display(n))) \o Display(n)

\* Timer::elapsed with the microseconds not reduced modulo 1000.
elapsed_unreduced(d) ==
    LET secs == as_secs(d)
        millis == subsec_millis(d)
        micros == subsec_micros(d)
        nanos == subsec_nanos(d) % 1000
    IN  IF secs # 0 THEN Display(secs) \o "." \o Pad3(millis) \o "s"
        ELSE IF millis > 0 THEN Display(millis) \o "." \o Pad3(micros) \o "ms"
        ELSE IF micros > 0 THEN Display(micros) \o "." \o Pad3(nanos) \o "µs"
        ELSE Display(subsec_nanos(d)) \o "ns"

\* Timer::elapsed
elapsed(d) ==
    LET secs == as_secs(d)
        millis == subsec_millis(d)
        micros == subsec_micros(d) % 1000
        nanos == subsec_nanos(d) % 1000
    IN  IF secs # 0 THEN Display(secs) \o "." \o Pad3(millis) \o "s"
        ELSE IF millis > 0 THEN Display(millis) \o "." \o Pad3(micros) \o "ms"
        ELSE IF micros > 0 THEN Display(micros) \o "." \o Pad3(nanos) \o "µs"
        ELSE Display(subsec_nanos(d)) \o "ns"

\* Timer::elapsed_colored: the text in a bold colour.
elapsed_colored(d) ==
    LET secs == as_secs(d)
        millis == subsec_millis(d)
        micros == subsec_micros(d) % 1000
        nanos == subsec_nanos(d) % 1000
    IN  IF secs # 0
        THEN [text |-> Display(secs) \o "." \o Pad3(millis) \o "s", color |-> "magenta"]
        ELSE IF millis > 0
        THEN [text |-> Display(millis) \o "." \o Pad3(micros) \o "ms", color |-> "yellow"]
        ELSE IF micros > 0
        THEN [text |-> Display(micros) \o "." \o Pad3(nanos) \o "µs", color |-> "cyan"]
        ELSE [text |-> Display(subsec_nanos(d)) \o "ns", color |-> "green"]

----------------------------------------------------------------------------
(* Timer *)

\* A Timer that has not been constructed yet.
Unborn == [life |-> "unborn", start_time |-> 0, last_lap_time |-> 0,
           name |-> "", indent |-> 0, finished |-> FALSE, extra_info |-> None]

NoCalls == [lap |-> 0, finish |-> 0]

RECURSIVE Sum(_, _)
Sum(f, S) == IF S = {} THEN 0
             ELSE LET x == CHOOSE y \in S : TRUE IN f[x] + Sum(f, S \ {x})

\* The lap and finish calls made so far, over all Timers.
Calls == Sum([t \in TimerIds |-> calls[t].lap + calls[t].finish], TimerIds)

\* Timer::user_message with the message of the call before extra_info.
user_message_args_first(self, args) ==
    IF self.extra_info # None /\ args # None
    THEN self.name \o ", " \o args[1] \o ", " \o self.extra_info[1]
    ELSE IF self.extra_info # None THEN self.name \o ", " \o self.extra_info[1]
    ELSE IF args # None THEN self.name \o ", " \o args[1]
    ELSE self.name

\* The user message of Timer::format: name, extra_info and args joined by ", ".
user_message(self, args) ==
    IF self.extra_info # None /\ args # None
    THEN self.name \o ", " \o self.extra_info[1] \o ", " \o args[1]
    ELSE IF self.extra_info # None THEN self.name \o ", " \o self.extra_info[1]
    ELSE IF args # None THEN self.name \o ", " \o args[1]
    ELSE self.name

\* Timer::status: the status word; its colour is chosen by indent % 5.
status(st, indent) ==
    [word |-> st, color |-> indent % 5]

\* Timer::format for TimerState::Start.
FormatStart(t, self, args) ==
    [timer |-> t, status |-> status("Start", self.indent),
     indentation |-> self.indent * 4,
     message |-> user_message(self, args), elapsed |-> None, text |-> ""]

\* Timer::format for TimerState::Lap measuring from start_time.
FormatLapSinceStart(t, self, args, read) ==
    [timer |-> t, status |-> status("Lap", self.indent + 1),
     indentation |-> (self.indent + 1) * 4,
     message |-> user_message(self, args),
     elapsed |-> Some(InstantElapsed(self.start_time, read)),
     text |-> elapsed_colored(InstantElapsed(self.start_time, read)).text]

\* Timer::format for TimerState::Lap, without the update of last_lap_time;
\* read is the clock as last_lap_time.elapsed() reads it.
FormatLap(t, self, args, read) ==
    [timer |-> t, status |-> status("Lap", self.indent + 1),
     indentation |-> (self.indent + 1) * 4,
     message |-> user_message(self, args),
     elapsed |-> Some(InstantElapsed(self.last_lap_time, read)),
     text |-> elapsed_colored(InstantElapsed(self.last_lap_time, read)).text]

\* Timer::format for TimerState::Finish measuring from last_lap_time.
FormatFinishSinceLap(t, self, args, read) ==
    [timer |-> t, status |-> status("Finish", self.indent),
     indentation |-> self.indent * 4,
     message |-> user_message(self, args),
     elapsed |-> Some(InstantElapsed(self.last_lap_time, read)),
     text |-> elapsed(InstantElapsed(self.last_lap_time, read))]

\* Timer::format for TimerState::Finish; read is the clock as
\* start_time.elapsed() reads it.
FormatFinish(t, self, args, read) ==
    [timer |-> t, status |-> status("Finish", self.indent),
     indentation |-> self.indent * 4,
     message |-> user_message(self, args),
     elapsed |-> Some(InstantElapsed(self.start_time, read)),
     text |-> elapsed(InstantElapsed(self.start_time, read))]

\* The identity of the next Timer to be constructed.
NextId == CHOOSE t \in TimerIds :
              /\ timers[t].life = "unborn"
              /\ \A u \in TimerIds : u < t => timers[u].life # "unborn"

\* Timer::new recording indent after the increment of NUM_INDENT.
NewIndentAfterIncrement(name, extra_info) ==
    /\ \E t \in TimerIds : timers[t].life = "unborn"
    /\ LET t == NextId
           self == [life |-> "live", start_time |-> now, last_lap_time |-> now,
                    name |-> name, indent |-> NUM_INDENT + 1, finished |-> FALSE,
                    extra_info |-> extra_info]
       IN  /\ timers' = [timers EXCEPT ![t] = self]
           /\ out' = Append(out, FormatStart(t, self, None))
           /\ NUM_INDENT' = NUM_INDENT + 1
    /\ UNCHANGED <<now, calls, pc, dur, rendered, ext>>

\* Timer::new (through timer!): reads the clock, records NUM_INDENT as indent,
\* prints the Start line, then increments NUM_INDENT.
New(name, extra_info) ==
    /\ \E t \in TimerIds : timers[t].life = "unborn"
    /\ LET t == NextId
           self == [life |-> "live", start_time |-> now, last_lap_time |-> now,
                    name |-> name, indent |-> NUM_INDENT, finished |-> FALSE,
                    extra_info |-> extra_info]
       IN  /\ timers' = [timers EXCEPT ![t] = self]
           /\ out' = Append(out, FormatStart(t, self, None))
           /\ NUM_INDENT' = NUM_INDENT + 1
    /\ UNCHANGED <<now, calls, pc, dur, rendered, ext>>

\* Timer::lap that also stops the timer.
LapStopsTimer(t, args, d) ==
    /\ timers[t].life = "live"
    /\ out' = Append(out, FormatLap(t, timers[t], args, now))
    /\ now' = now + d
    /\ timers' = [timers EXCEPT ![t].last_lap_time = now + d, ![t].finished = TRUE]
    /\ calls' = [calls EXCEPT ![t].lap = @ + 1]
    /\ UNCHANGED <<NUM_INDENT, pc, dur, rendered, ext>>

\* Timer::lap that leaves last_lap_time alone.
LapKeepsLastLapTime(t, args, d) ==
    /\ timers[t].life = "live"
    /\ out' = Append(out, FormatLap(t, timers[t], args, now))
    /\ now' = now + d
    /\ calls' = [calls EXCEPT ![t].lap = @ + 1]
    /\ UNCHANGED <<NUM_INDENT, timers, pc, dur, rendered, ext>>

\* Timer::lap (through lap!): prints the Lap line.  Formatting the line reads the
\* clock twice: once in last_lap_time.elapsed(), once more for the new
\* last_lap_time; the clock may have advanced by d in between.
Lap(t, args, d) ==
    /\ timers[t].life = "live"
    /\ out' = Append(out, FormatLap(t, timers[t], args, now))
    /\ now' = now + d
    /\ timers' = [timers EXCEPT ![t].last_lap_time = now + d]
    /\ calls' = [calls EXCEPT ![t].lap = @ + 1]
    /\ UNCHANGED <<NUM_INDENT, pc, dur, rendered, ext>>

\* Timer::finish that never sets finished.
finish_without_store(t, args) ==
    IF ~timers[t].finished
    THEN [NUM_INDENT |-> NUM_INDENT - 1,
          timers |-> timers,
          out |-> Append(out, FormatFinish(t, timers[t], args, now))]
    ELSE [NUM_INDENT |-> NUM_INDENT, timers |-> timers, out |-> out]

\* Timer::finish that decrements NUM_INDENT before looking at finished.
finish_decrement_first(t, args) ==
    IF ~timers[t].finished
    THEN [NUM_INDENT |-> NUM_INDENT - 1,
          timers |-> [timers EXCEPT ![t].finished = TRUE],
          out |-> Append(out, FormatFinish(t, timers[t], args, now))]
    ELSE [NUM_INDENT |-> NUM_INDENT - 1, timers |-> timers, out |-> out]

\* The body of Timer::finish run without interruption, as the values it leaves
\* behind: if finished is not set, decrement NUM_INDENT, set finished and print
\* the Finish line; otherwise nothing.
finish(t, args) ==
    IF ~timers[t].finished
    THEN [NUM_INDENT |-> NUM_INDENT - 1,
          timers |-> [timers EXCEPT ![t].finished = TRUE],
          out |-> Append(out, FormatFinish(t, timers[t], args, now))]
    ELSE [NUM_INDENT |-> NUM_INDENT, timers |-> timers, out |-> out]

\* Timer::finish called explicitly (through finish!).
Finish(t, args) ==
    /\ timers[t].life = "live"
    /\ NUM_INDENT' = finish(t, args).NUM_INDENT
    /\ timers' = finish(t, args).timers
    /\ out' = finish(t, args).out
    /\ calls' = [calls EXCEPT ![t].finish = @ + 1]
    /\ UNCHANGED <<now, pc, dur, rendered, ext>>

\* Drop for Timer that does not call finish.
DropWithoutFinish(t) ==
    /\ timers[t].life = "live"
    /\ timers' = [timers EXCEPT ![t].life = "dropped"]
    /\ UNCHANGED <<now, NUM_INDENT, out, calls, pc, dur, rendered, ext>>

\* Drop for Timer: runs self.finish(None); the Timer is gone afterwards.
Drop(t) ==
    /\ timers[t].life = "live"
    /\ NUM_INDENT' = finish(t, None).NUM_INDENT
    /\ timers' = [finish(t, None).timers EXCEPT ![t].life = "dropped"]
    /\ out' = finish(t, None).out
    /\ UNCHANGED <<now, calls, pc, dur, rendered, ext>>

\* Time passes between two calls.
Tick ==
    /\ now' = now + 1
    /\ UNCHANGED <<NUM_INDENT, timers, out, calls, pc, dur, rendered, ext>>

Idle == [at |-> "idle", timer |-> 0, args |-> None]

\* No attribute macro has run and no storage directory has been asked for.
ExtIdle ==
    /\ item = None
    /\ tokens = None
    /\ exec = None
    /\ attr = None
    /\ timeOut = None
    /\ env = None
    /\ path = None

Init ==
    /\ now = 0
    /\ NUM_INDENT = 0
    /\ timers = [t \in TimerIds |-> Unborn]
    /\ out = <<>>
    /\ calls = [t \in TimerIds |-> NoCalls]
    /\ pc = [th \in Threads |-> Idle]
    /\ dur = [secs |-> 0, nanos |-> 0]
    /\ rendered = None
    /\ ExtIdle

\* Several Timers, constructed, lapped, finished and dropped in any order by
\* one thread.
Next ==
    \/ \E name \in Names : New(name, None)
    \/ \E t \in TimerIds : Calls < MaxCalls /\ Lap(t, None, 0)
    \/ \E t \in TimerIds : Calls < MaxCalls /\ Finish(t, None)
    \/ \E t \in TimerIds : Drop(t)

Spec == Init /\ [][Next]_vars

\* The whole life of one Timer under a moving clock, with and without
\* extra_info and messages.
NextLife ==
    \/ \E name \in Names, extra_info \in ExtraInfos :
          timers[1].life = "unborn" /\ New(name, extra_info)
    \/ \E t \in TimerIds, args \in LapMessages, d \in 0..1 :
          Calls < LifeCalls /\ now + d <= MaxTime /\ Lap(t, args, d)
    \/ \E t \in TimerIds, args \in Messages :
          Calls < LifeCalls /\ Finish(t, args)
    \/ \E t \in TimerIds : Drop(t)
    \/ now < MaxTime /\ Tick

SpecLife == Init /\ [][NextLife]_vars

----------------------------------------------------------------------------
(* Timer::finish, statement by statement, on Timers shared between threads *)

AllIdle == \A th \in Threads : pc[th].at = "idle"

\* finished.load(SeqCst): the call returns at once when the flag is set.
FinishLoad(th, t, args) ==
    /\ pc[th].at = "idle"
    /\ timers[t].life = "live"
    /\ pc' = IF ~timers[t].finished
             THEN [pc EXCEPT ![th] = [at |-> "fetch_sub", timer |-> t, args |-> args]]
             ELSE pc
    /\ calls' = [calls EXCEPT ![t].finish = @ + 1]
    /\ UNCHANGED <<now, NUM_INDENT, timers, out, dur, rendered, ext>>

\* NUM_INDENT.fetch_sub(1, Relaxed)
FinishFetchSub(th) ==
    /\ pc[th].at = "fetch_sub"
    /\ NUM_INDENT' = NUM_INDENT - 1
    /\ pc' = [pc EXCEPT ![th].at = "store"]
    /\ UNCHANGED <<now, timers, out, calls, dur, rendered, ext>>

\* finished.store(true, SeqCst)
FinishStore(th) ==
    /\ pc[th].at = "store"
    /\ timers' = [timers EXCEPT ![pc[th].timer].finished = TRUE]
    /\ pc' = [pc EXCEPT ![th].at = "print"]
    /\ UNCHANGED <<now, NUM_INDENT, out, calls, dur, rendered, ext>>

\* self.print(TimerState::Finish, args)
FinishPrint(th) ==
    /\ pc[th].at = "print"
    /\ out' = Append(out, FormatFinish(pc[th].timer, timers[pc[th].timer],
                                       pc[th].args, now))
    /\ pc' = [pc EXCEPT ![th] = Idle]
    /\ UNCHANGED <<now, NUM_INDENT, timers, calls, dur, rendered, ext>>

\* One Timer is constructed, then finish is called on it from several threads;
\* it is dropped when no thread is using it.
NextConc ==
    \/ \E name \in Names :
          AllIdle /\ timers[1].life = "unborn" /\ New(name, None)
    \/ \E th \in Threads, t \in TimerIds, args \in Messages :
          Calls < LifeCalls /\ FinishLoad(th, t, args)
    \/ \E th \in Threads : FinishFetchSub(th)
    \/ \E th \in Threads : FinishStore(th)
    \/ \E th \in Threads : FinishPrint(th)
    \/ \E t \in TimerIds : AllIdle /\ Drop(t)
    \/ now < MaxTime /\ Tick

SpecConc == Init /\ [][NextConc]_vars

----------------------------------------------------------------------------
(* Rendering a Duration *)

\* Sub-second nanoseconds around which the rendering changes its unit, and the
\* values the documentation quotes.
Breakpoints == {0, 500, 1000, 1500, 999999, 1000000, 2500000, 200000000,
                999999999}

Max(a, b) == IF a >= b THEN a ELSE b
Min(a, b) == IF a <= b THEN a ELSE b

FmtNanos == UNION {Max(0, b - FmtSpan)..Min(NANOS_PER_SEC - 1, b + FmtSpan) :
                      b \in Breakpoints}

FmtInputs == [secs : {0, 1, 12}, nanos : FmtNanos]

InitFmt ==
    /\ now = 0
    /\ NUM_INDENT = 0
    /\ timers = [t \in TimerIds |-> Unborn]
    /\ out = <<>>
    /\ calls = [t \in TimerIds |-> NoCalls]
    /\ pc = [th \in Threads |-> Idle]
    /\ dur \in FmtInputs
    /\ rendered = None
    /\ ExtIdle

\* dur is rendered by Timer::elapsed and by Timer::elapsed_colored.
Render ==
    /\ rendered = None
    /\ rendered' = Some([plain |-> elapsed(dur), colored |-> elapsed_colored(dur)])
    /\ UNCHANGED <<now, NUM_INDENT, timers, out, calls, pc, dur, ext>>

NextFmt == Render

SpecFmt == InitFmt /\ [][NextFmt]_vars

----------------------------------------------------------------------------
(* The Timer and its macros without the "timer" feature *)

MaxMacroArgs == 3     \* SpecNoop: comma-separated arguments of one macro call

\* timer!, lap!, finish! with the feature: the arm a call with n arguments
\* matches (0: none, the call does not compile).  Arms: ($x), ($x, $format),
\* ($x, $format, $($arg),*).
live_arm(macro, n) ==
    IF n = 1 THEN 1 ELSE IF n = 2 THEN 2 ELSE IF n >= 3 THEN 3 ELSE 0

\* The same macros without the feature, missing the third arm.
noop_arm_two_arms(macro, n) ==
    IF n = 1 THEN 1 ELSE IF n = 2 THEN 2 ELSE 0

\* timer!, lap!, finish! without the feature.
noop_arm(macro, n) ==
    IF n = 1 THEN 1 ELSE IF n = 2 THEN 2 ELSE IF n >= 3 THEN 3 ELSE 0

\* Timer::default(): the struct holds a PhantomData only.
InertTimer == [Unborn EXCEPT !.life = "live"]

\* timer! without the feature: Timer::default(); the arguments are not
\* evaluated.
NoopTimerMacro(n) ==
    /\ noop_arm("timer", n) # 0
    /\ \E t \in TimerIds : timers[t].life = "unborn"
    /\ timers' = [timers EXCEPT ![NextId] = InertTimer]
    /\ UNCHANGED <<now, NUM_INDENT, out, calls, pc, dur, rendered, ext>>

\* lap! without the feature: $timer.noop().
NoopLap(t, n) ==
    /\ noop_arm("lap", n) # 0
    /\ timers[t].life = "live"
    /\ calls' = [calls EXCEPT ![t].lap = @ + 1]
    /\ UNCHANGED <<now, NUM_INDENT, timers, out, pc, dur, rendered, ext>>

\* finish! without the feature: $timer.noop().
NoopFinish(t, n) ==
    /\ noop_arm("finish", n) # 0
    /\ timers[t].life = "live"
    /\ calls' = [calls EXCEPT ![t].finish = @ + 1]
    /\ UNCHANGED <<now, NUM_INDENT, timers, out, pc, dur, rendered, ext>>

\* The inert Timer with the Drop of the live Timer.
NoopDropFinalizes(t) == Drop(t)

\* The inert Timer goes out of scope: there is no Drop for it.
NoopDrop(t) ==
    /\ timers[t].life = "live"
    /\ timers' = [timers EXCEPT ![t].life = "dropped"]
    /\ UNCHANGED <<now, NUM_INDENT, out, calls, pc, dur, rendered, ext>>

\* The calls of Spec, made on a build without the feature.
NextNoop ==
    \/ \E n \in 1..MaxMacroArgs : NoopTimerMacro(n)
    \/ \E t \in TimerIds, n \in 1..MaxMacroArgs : Calls < MaxCalls /\ NoopLap(t, n)
    \/ \E t \in TimerIds, n \in 1..MaxMacroArgs : Calls < MaxCalls /\ NoopFinish(t, n)
    \/ \E t \in TimerIds : NoopDrop(t)

SpecNoop == Init /\ [][NextNoop]_vars

----------------------------------------------------------------------------
(* timed/src/lib.rs: the timed attribute and rewrite_stmts (feature "timed") *)

MaxStmts == 3         \* SpecTimed: statements in the body of the function

LENGTH == 45

\* Statements by their token-stream text; exits tells whether running the
\* statement leaves the function (return, ?, panic).
\* In S_mu the character ~ stands for the micro sign, one character of two
\* bytes.
S_short == [text |-> "let x = 1 ;", exits |-> FALSE]
S_45 == [text |-> "let total = alpha + beta + gamma + delta_45 ;", exits |-> FALSE]
S_46 == [text |-> "let total = alpha + beta + gamma + delta_046 ;", exits |-> FALSE]
S_mu == [text |-> "let unit = \"~s\" ; let scale = 1_000 * 1_000 ;", exits |-> FALSE]
S_nl == [text |-> "let text = \"a\nb\" ;", exits |-> FALSE]
S_ret == [text |-> "return 0 ;", exits |-> TRUE]

Statements == {S_short, S_45, S_46, S_mu, S_nl, S_ret}

\* The sequences over S of length at most n.
RECURSIVE SeqsUpTo(_, _)
SeqsUpTo(S, n) ==
    IF n = 0 THEN {<<>>}
    ELSE LET shorter == SeqsUpTo(S, n - 1)
         IN  shorter \cup {Append(q, x) : q \in {r \in shorter : Len(r) = n - 1}, x \in S}

\* str::replace(from, to) for a one-character from.
RECURSIVE ReplaceChar(_, _, _)
ReplaceChar(str, from, to) ==
    IF str = "" THEN ""
    ELSE (IF SubSeq(str, 1, 1) = from THEN to ELSE SubSeq(str, 1, 1))
         \o ReplaceChar(SubSeq(str, 2, Len(str)), from, to)

\* str::len: the length in bytes.
RECURSIVE Utf8Len(_)
Utf8Len(str) ==
    IF str = "" THEN 0
    ELSE (IF SubSeq(str, 1, 1) = "~" THEN 2 ELSE 1) + Utf8Len(SubSeq(str, 2, Len(str)))

\* truncate that compares the length in bytes with len.
truncate_bytes(stmt, len) ==
    LET string == ReplaceChar(stmt.text, "\n", " ")
    IN  IF Utf8Len(string) > len THEN SubSeq(string, 1, len) \o "..." ELSE string

\* truncate that cuts a text of exactly len characters too.
truncate_at_length(stmt, len) ==
    LET string == ReplaceChar(stmt.text, "\n", " ")
    IN  IF Len(string) >= len THEN SubSeq(string, 1, len) \o "..." ELSE string

\* rewrite_stmts::truncate: the text of the statement on one line, cut to len
\* characters and followed by "..." when it has more.
truncate(stmt, len) ==
    LET string == ReplaceChar(stmt.text, "\n", " ")
    IN  IF Len(string) > len THEN SubSeq(string, 1, len) \o "..." ELSE string

\* The statements of the setup block: struct Timed, impl Timed, impl Drop for
\* Timed, let mut timed = Timed::new(#name).
setup(name) ==
    <<[kind |-> "item", text |-> "struct Timed"],
      [kind |-> "item", text |-> "impl Timed"],
      [kind |-> "item", text |-> "impl Drop for Timed"],
      [kind |-> "let_timed", name |-> name]>>

\* timed.mark_elapsed(#short);
MarkStmt(short) == [kind |-> "mark", short |-> short]

\* The loop over the statements before the last: each is pushed, followed by
\* its mark "L{index}: {short}".
RECURSIVE DrainLoop(_, _, _)
DrainLoop(stmts, index, new_stmts) ==
    IF index >= Len(stmts) THEN new_stmts
    ELSE LET stmt == stmts[index + 1]
             short == "L" \o Display(index) \o ": " \o truncate(stmt, LENGTH)
         IN  DrainLoop(stmts, index + 1,
                       new_stmts \o <<[kind |-> "stmt", stmt |-> stmt], MarkStmt(short)>>)

\* The loop pushing the mark before the statement.
RECURSIVE DrainLoopMarkFirst(_, _, _)
DrainLoopMarkFirst(stmts, index, new_stmts) ==
    IF index >= Len(stmts) THEN new_stmts
    ELSE LET stmt == stmts[index + 1]
             short == "L" \o Display(index) \o ": " \o truncate(stmt, LENGTH)
         IN  DrainLoopMarkFirst(stmts, index + 1,
                       new_stmts \o <<MarkStmt(short), [kind |-> "stmt", stmt |-> stmt]>>)

\* The statements pushed for the last statement: the binding of return_stmt,
\* its mark, the return.
LastStmts(stmt) ==
    <<[kind |-> "let_return_stmt", stmt |-> stmt],
      MarkStmt(truncate(stmt, LENGTH)),
      [kind |-> "return"]>>

\* rewrite_stmts with the statement loop pushing the mark first.
rewrite_stmts_mark_first(name, stmts) ==
    IF stmts = <<>> THEN setup(name)
    ELSE DrainLoopMarkFirst(SubSeq(stmts, 1, Len(stmts) - 1), 0, setup(name))
            \o LastStmts(stmts[Len(stmts)])

\* rewrite_stmts pushing the return whether or not there is a last statement.
rewrite_stmts_always_return(name, stmts) ==
    IF stmts = <<>> THEN Append(setup(name), [kind |-> "return"])
    ELSE DrainLoop(SubSeq(stmts, 1, Len(stmts) - 1), 0, setup(name))
            \o LastStmts(stmts[Len(stmts)])

\* rewrite_stmts pushing the return before the mark of the last statement.
rewrite_stmts_return_first(name, stmts) ==
    IF stmts = <<>> THEN setup(name)
    ELSE DrainLoop(SubSeq(stmts, 1, Len(stmts) - 1), 0, setup(name))
            \o <<[kind |-> "let_return_stmt", stmt |-> stmts[Len(stmts)]],
                 [kind |-> "return"],
                 MarkStmt(truncate(stmts[Len(stmts)], LENGTH))>>

\* rewrite_stmts: the setup, then stmts.pop() as last, the loop over what is
\* left, and the three statements for last when there is one.
rewrite_stmts(name, stmts) ==
    IF stmts = <<>> THEN setup(name)
    ELSE DrainLoop(SubSeq(stmts, 1, Len(stmts) - 1), 0, setup(name))
            \o LastStmts(stmts[Len(stmts)])

\* What the attribute can be put on, with what syn makes of it: whether it
\* parses as ItemFn, as TraitItemFn (with or without a default block) and as
\* ImplItemFn.  Where a function with a body parses as more than one of them,
\* every combination is kept.
ItemKinds ==
    [kind : {"fn"}, item_fn : {TRUE}, trait_fn : {"no", "default"},
     impl_fn : BOOLEAN]
    \cup [kind : {"trait_default"}, item_fn : BOOLEAN, trait_fn : {"default"},
          impl_fn : BOOLEAN]
    \cup [kind : {"trait_required"}, item_fn : {FALSE}, trait_fn : {"required"},
          impl_fn : {FALSE}]
    \cup [kind : {"impl_fn"}, item_fn : BOOLEAN, trait_fn : {"no", "default"},
          impl_fn : {TRUE}]
    \cup [kind : {"other"}, item_fn : {FALSE}, trait_fn : {"no"}, impl_fn : {FALSE}]

Items == [syn : ItemKinds, name : {"foo"}, stmts : SeqsUpTo(Statements, MaxStmts)]

Rewritten(it) == [kind |-> "fn", stmts |-> rewrite_stmts(it.name, it.stmts)]

\* timed that hands a trait method without a default block back as it is.
timed_passthrough(it) ==
    IF it.syn.item_fn THEN Rewritten(it)
    ELSE IF it.syn.trait_fn = "default" THEN Rewritten(it)
    ELSE IF it.syn.trait_fn = "required" THEN [kind |-> "fn", stmts |-> it.stmts]
    ELSE IF it.syn.impl_fn THEN Rewritten(it)
    ELSE [kind |-> "panic", stmts |-> <<>>]

\* timed: the first of ItemFn, TraitItemFn with a default block, ImplItemFn
\* that parses is rewritten; anything else panics.
timed(it) ==
    IF it.syn.item_fn THEN Rewritten(it)
    ELSE IF it.syn.trait_fn = "default" THEN Rewritten(it)
    ELSE IF it.syn.impl_fn THEN Rewritten(it)
    ELSE [kind |-> "panic", stmts |-> <<>>]

\* The compiler expands #[timed] on item.
Expand ==
    /\ item # None
    /\ tokens = None
    /\ tokens' = Some(timed(item[1]))
    /\ UNCHANGED <<now, NUM_INDENT, timers, out, calls, pc, dur, rendered,
                   item, exec, attr, timeOut, env, path>>

InitTimed ==
    /\ now = 0
    /\ NUM_INDENT = 0
    /\ timers = [t \in TimerIds |-> Unborn]
    /\ out = <<>>
    /\ calls = [t \in TimerIds |-> NoCalls]
    /\ pc = [th \in Threads |-> Idle]
    /\ dur = [secs |-> 0, nanos |-> 0]
    /\ rendered = None
    /\ item \in {Some(it) : it \in Items}
    /\ tokens = None
    /\ exec = None
    /\ attr = None
    /\ timeOut = None
    /\ env = None
    /\ path = None

NextTimed == Expand

SpecTimed == InitTimed /\ [][NextTimed]_vars

\* The body the attribute was put on, and the body it produced.
Body == item[1].stmts
NewStmts == tokens[1].stmts

----------------------------------------------------------------------------
(* timed/src/lib.rs: a call of the function the attribute has rewritten *)

\* Duration - Duration
DurationSub(a, b) == DurationBetween(AsNanos(a), AsNanos(b))

\* The text mark_elapsed makes of a Duration.
MarkText(d) ==
    LET secs == as_secs(d)
        millis == subsec_millis(d)
        micros == subsec_micros(d) % 1000
        nanos == subsec_nanos(d) % 1000
    IN  IF secs # 0 THEN Display(secs) \o "." \o Pad3(millis) \o "s"
        ELSE IF millis > 0 THEN Display(millis) \o "." \o Pad3(micros) \o "ms"
        ELSE IF micros > 0 THEN Display(micros) \o "." \o Pad3(nanos) \o "µs"
        ELSE Display(subsec_nanos(d)) \o "ns"

\* "{:<55}": left-aligned in a field of at least 55, filled with ' '.
PadRight55(str) == str \o Fill(" ", 55 - Len(str))

\* "{:->25}": right-aligned in a field of at least 25, filled with '-'.
PadLeft25(str) == Fill("-", 25 - Len(str)) \o str

\* The digits after the point of "{:?}" of a Duration: no trailing zeros.
RECURSIVE FracDigits(_, _)
FracDigits(frac, divisor) ==
    IF frac = 0 THEN ""
    ELSE DigitChar(frac \div divisor) \o FracDigits(frac % divisor, divisor \div 10)

FmtDecimal(int, frac, divisor, unit) ==
    Display(int) \o (IF frac = 0 THEN "" ELSE "." \o FracDigits(frac, divisor)) \o unit

\* "{:?}" of a Duration.
DurationDebug(d) ==
    IF d.secs > 0 THEN FmtDecimal(d.secs, d.nanos, NANOS_PER_SEC \div 10, "s")
    ELSE IF d.nanos >= NANOS_PER_MILLI
         THEN FmtDecimal(d.nanos \div NANOS_PER_MILLI, d.nanos % NANOS_PER_MILLI,
                         NANOS_PER_MILLI \div 10, "ms")
    ELSE IF d.nanos >= NANOS_PER_MICRO
         THEN FmtDecimal(d.nanos \div NANOS_PER_MICRO, d.nanos % NANOS_PER_MICRO,
                         NANOS_PER_MICRO \div 10, "µs")
    ELSE FmtDecimal(d.nanos, 0, 1, "ns")

\* The grave accent of the Start and End lines, written as an apostrophe:
\* a string of TLA+ cannot hold a grave accent.
Grave == "'"

\* Timed::new
TimedNew(name, read) ==
    [start |-> read, name |-> name,
     buffer |-> <<"Start: " \o Grave \o name \o Grave>>,
     prev_mark |-> None]

\* Timed::mark_elapsed keeping in prev_mark what it reports.
TimedMarkElapsedKeepsDelta(self, short, read) ==
    LET since == InstantElapsed(self.start, read)
        delta == IF self.prev_mark # None THEN DurationSub(since, self.prev_mark[1])
                 ELSE since
    IN  [self EXCEPT
            !.prev_mark = Some(delta),
            !.buffer = Append(@, "    " \o PadRight55(short) \o " "
                                   \o PadLeft25(MarkText(delta)))]

\* Timed::mark_elapsed: the time since start, less the time since start at
\* the mark before when there was one, on a line of its own in the buffer.
TimedMarkElapsed(self, short, read) ==
    LET since == InstantElapsed(self.start, read)
        delta == IF self.prev_mark # None THEN DurationSub(since, self.prev_mark[1])
                 ELSE since
    IN  [self EXCEPT
            !.prev_mark = Some(since),
            !.buffer = Append(@, "    " \o PadRight55(short) \o " "
                                   \o PadLeft25(MarkText(delta)))]

\* Drop for Timed: the End line, then the buffer is printed.
TimedDrop(self, read) ==
    Append(self.buffer,
           "End: " \o Grave \o self.name \o Grave \o " took "
               \o DurationDebug(InstantElapsed(self.start, read)))

RunStatements == {S_short, S_46, S_ret}

RunItems ==
    [syn : {[kind |-> "fn", item_fn |-> TRUE, trait_fn |-> "no", impl_fn |-> TRUE]},
     name : {"foo"}, stmts : SeqsUpTo(RunStatements, MaxStmts)]

Running == exec # None /\ exec[1].status = "running"

At(k) ==
    /\ Running
    /\ exec[1].pc <= Len(NewStmts)
    /\ NewStmts[exec[1].pc].kind = k

\* The function is left: timed goes out of scope and is dropped.
Leave(e) ==
    [e EXCEPT !.status = "done",
              !.timed = None,
              !.printed = IF e.timed # None
                          THEN Append(@, TimedDrop(e.timed[1], now))
                          ELSE @]

RunFrame == UNCHANGED <<now, NUM_INDENT, timers, out, calls, pc, dur, rendered,
                        item, tokens, attr, timeOut, env, path>>

\* The rewritten function is called.  started and reads keep the clock
\* readings of Timed::new and of the calls of mark_elapsed, for the claims.
Call ==
    /\ tokens # None
    /\ tokens[1].kind = "fn"
    /\ exec = None
    /\ exec' = Some([pc |-> 1, timed |-> None, return_stmt |-> None,
                     result |-> None, printed |-> <<>>, status |-> "running",
                     started |-> None, reads |-> <<>>])
    /\ RunFrame

\* struct Timed, impl Timed, impl Drop for Timed: declarations.
RunDeclaration ==
    /\ At("item")
    /\ exec' = Some([exec[1] EXCEPT !.pc = @ + 1])
    /\ RunFrame

\* let mut timed = Timed::new(#name);
RunLetTimed ==
    /\ At("let_timed")
    /\ exec' = Some([exec[1] EXCEPT
                        !.pc = @ + 1,
                        !.timed = Some(TimedNew(NewStmts[exec[1].pc].name, now)),
                        !.started = Some(now)])
    /\ RunFrame

\* A statement of the original body, which may leave the function.
RunStmt ==
    /\ At("stmt")
    /\ exec' = IF NewStmts[exec[1].pc].stmt.exits
               THEN Some(Leave(exec[1]))
               ELSE Some([exec[1] EXCEPT !.pc = @ + 1])
    /\ RunFrame

\* timed.mark_elapsed(#short);
RunMark ==
    /\ At("mark")
    /\ exec' = Some([exec[1] EXCEPT
                        !.pc = @ + 1,
                        !.timed = Some(TimedMarkElapsed(exec[1].timed[1],
                                                        NewStmts[exec[1].pc].short, now)),
                        !.reads = Append(@, now)])
    /\ RunFrame

\* let return_stmt = { #stmt };
RunLetReturnStmt ==
    /\ At("let_return_stmt")
    /\ exec' = IF NewStmts[exec[1].pc].stmt.exits
               THEN Some(Leave(exec[1]))
               ELSE Some([exec[1] EXCEPT
                             !.pc = @ + 1,
                             !.return_stmt = Some(NewStmts[exec[1].pc].stmt.text)])
    /\ RunFrame

\* return return_stmt;
RunReturn ==
    /\ At("return")
    /\ exec' = Some(Leave([exec[1] EXCEPT !.result = exec[1].return_stmt]))
    /\ RunFrame

\* The end of the body is reached.
RunEnd ==
    /\ Running
    /\ exec[1].pc > Len(NewStmts)
    /\ exec' = Some(Leave(exec[1]))
    /\ RunFrame

InitRun ==
    /\ now = 0
    /\ NUM_INDENT = 0
    /\ timers = [t \in TimerIds |-> Unborn]
    /\ out = <<>>
    /\ calls = [t \in TimerIds |-> NoCalls]
    /\ pc = [th \in Threads |-> Idle]
    /\ dur = [secs |-> 0, nanos |-> 0]
    /\ rendered = None
    /\ item \in {Some(it) : it \in RunItems}
    /\ tokens = None
    /\ exec = None
    /\ attr = None
    /\ timeOut = None
    /\ env = None
    /\ path = None

NextRun ==
    \/ Expand
    \/ Call
    \/ RunDeclaration
    \/ RunLetTimed
    \/ RunStmt
    \/ RunMark
    \/ RunLetReturnStmt
    \/ RunReturn
    \/ RunEnd
    \/ Running /\ now < MaxTime /\ Tick

SpecRun == InitRun /\ [][NextRun]_vars

----------------------------------------------------------------------------
(* time/src/lib.rs: the time attribute (feature "time") *)

MaxTokens == 3        \* SpecTime: token trees in the arguments of the attribute

DEFAULT_LEVEL == "debug"
DEFAULT_NAME_PATTERN == "{}"

\* A literal token carries its source text, the double quotes included.
Lit(text) == [kind |-> "Literal", text |-> "\"" \o text \o "\""]

TokenTrees ==
    {Lit("debug"), Lit("Info"), Lit("NEVER"), Lit(" warn "), Lit("verbose"),
     Lit("FirstStruct::{}"), Lit("{}::{}"), Lit(""),
     [kind |-> "Punct", text |-> ","], [kind |-> "Ident", text |-> "info"]}

Whitespace == {" ", "\t", "\n"}

RECURSIVE StripStart(_, _)
StripStart(str, chars) ==
    IF str # "" /\ SubSeq(str, 1, 1) \in chars
    THEN StripStart(SubSeq(str, 2, Len(str)), chars)
    ELSE str

RECURSIVE StripEnd(_, _)
StripEnd(str, chars) ==
    IF str # "" /\ SubSeq(str, Len(str), Len(str)) \in chars
    THEN StripEnd(SubSeq(str, 1, Len(str) - 1), chars)
    ELSE str

\* str::trim
trim(str) == StripEnd(StripStart(str, Whitespace), Whitespace)

\* str::trim_matches for one character
trim_matches(str, c) == StripEnd(StripStart(str, {c}), {c})

UpperCase == "ABCDEFGHIJKLMNOPQRSTUVWXYZ"
LowerCase == "abcdefghijklmnopqrstuvwxyz"

LowerChar(c) ==
    IF \E i \in 1..Len(UpperCase) : SubSeq(UpperCase, i, i) = c
    THEN LET i == CHOOSE i \in 1..Len(UpperCase) : SubSeq(UpperCase, i, i) = c
         IN  SubSeq(LowerCase, i, i)
    ELSE c

\* str::to_ascii_lowercase
RECURSIVE to_ascii_lowercase(_)
to_ascii_lowercase(str) ==
    IF str = "" THEN ""
    ELSE LowerChar(SubSeq(str, 1, 1)) \o to_ascii_lowercase(SubSeq(str, 2, Len(str)))

\* The places where pat occurs in str.
Occurrences(str, pat) ==
    {i \in 1..(Len(str) - Len(pat) + 1) : SubSeq(str, i, i + Len(pat) - 1) = pat}

\* str::contains
contains(str, pat) == Occurrences(str, pat) # {}

\* str::replacen: the first count occurrences of from, left to right.
RECURSIVE replacen(_, _, _, _)
replacen(str, from, to, count) ==
    IF count = 0 \/ ~contains(str, from) THEN str
    ELSE LET i == CHOOSE i \in Occurrences(str, from) :
                     \A j \in Occurrences(str, from) : i <= j
         IN  SubSeq(str, 1, i - 1) \o to
                \o replacen(SubSeq(str, i + Len(from), Len(str)), from, to, count - 1)

\* extract_literal: the text of the literal without blanks and double quotes
\* around it; any other token tree panics.
extract_literal(token_tree) ==
    IF token_tree.kind = "Literal"
    THEN [panic |-> FALSE, s |-> trim(trim_matches(trim(token_tree.text), "\""))]
    ELSE [panic |-> TRUE, s |-> ""]

RECURSIVE SelectLiterals(_)
SelectLiterals(metadata) ==
    IF metadata = <<>> THEN <<>>
    ELSE (IF metadata[1].kind = "Literal" THEN <<metadata[1]>> ELSE <<>>)
         \o SelectLiterals(Tail(metadata))

LogLevels == {"error", "warn", "info", "debug", "trace", "never"}

Rejected == [panic |-> TRUE, level |-> "", name_pattern |-> ""]
Accepted(level, name_pattern) ==
    [panic |-> FALSE, level |-> level, name_pattern |-> name_pattern]

\* get_log_level_and_name_pattern
get_log_level_and_name_pattern(metadata) ==
    LET macro_args == SelectLiterals(metadata)
    IN  IF macro_args = <<>> THEN Accepted(DEFAULT_LEVEL, DEFAULT_NAME_PATTERN)
        ELSE IF Len(macro_args) > 2 THEN Rejected
        ELSE LET first == extract_literal(macro_args[1])
                 first_arg == first.s
                 first_arg_lower == to_ascii_lowercase(first_arg)
             IN  IF first.panic THEN Rejected
                 ELSE IF contains(first_arg, "{}") /\ Len(macro_args) = 2 THEN Rejected
                 ELSE IF Len(macro_args) = 1
                      THEN IF first_arg_lower \in LogLevels
                           THEN Accepted(first_arg_lower, DEFAULT_NAME_PATTERN)
                           ELSE Accepted(DEFAULT_LEVEL, first_arg)
                 ELSE IF first_arg_lower \in LogLevels
                      THEN LET second == extract_literal(macro_args[2])
                           IN  IF second.panic THEN Rejected
                               ELSE Accepted(first_arg_lower,
                                             IF second.s = "" THEN DEFAULT_NAME_PATTERN
                                             ELSE second.s)
                 ELSE Rejected

\* get_timer_name replacing every "{}" of the pattern.
get_timer_name_replace_all(name_pattern, function_name) ==
    replacen(name_pattern, "{}", function_name \o "()", Len(name_pattern))

\* get_timer_name
get_timer_name(name_pattern, function_name) ==
    replacen(name_pattern, "{}", function_name \o "()", 1)

\* What the attribute is put on: a function or some other item, with its
\* name and its body.
TimeInputs == [is_fn : BOOLEAN, ident : {"new"}, block : {<<S_short>>}]

\* time: the arguments are read first; with level "never" the input goes
\* back as it came; otherwise it must parse as ItemFn, and its block comes
\* back behind one let _tmr = timer!(#timer_name).
time(metadata, input) ==
    LET args == get_log_level_and_name_pattern(metadata)
    IN  IF args.panic THEN [kind |-> "panic", prelude |-> <<>>, block |-> <<>>]
        ELSE IF args.level # "never"
             THEN IF input.is_fn
                  THEN [kind |-> "wrapped",
                        prelude |-> <<[kind |-> "let_tmr",
                                       timer_name |-> get_timer_name(args.name_pattern,
                                                                     input.ident)]>>,
                        block |-> input.block]
                  ELSE [kind |-> "compile_error", prelude |-> <<>>, block |-> <<>>]
        ELSE [kind |-> "unchanged", prelude |-> <<>>, block |-> input.block]

\* The compiler expands #[time(...)] on the input.
ExpandTime ==
    /\ attr # None
    /\ timeOut = None
    /\ timeOut' = Some(time(attr[1].metadata, attr[1].input))
    /\ UNCHANGED <<now, NUM_INDENT, timers, out, calls, pc, dur, rendered,
                   item, tokens, exec, attr, env, path>>

InitTime ==
    /\ now = 0
    /\ NUM_INDENT = 0
    /\ timers = [t \in TimerIds |-> Unborn]
    /\ out = <<>>
    /\ calls = [t \in TimerIds |-> NoCalls]
    /\ pc = [th \in Threads |-> Idle]
    /\ dur = [secs |-> 0, nanos |-> 0]
    /\ rendered = None
    /\ item = None
    /\ tokens = None
    /\ exec = None
    /\ attr \in {Some([metadata |-> m, input |-> i]) :
                    m \in SeqsUpTo(TokenTrees, MaxTokens), i \in TimeInputs}
    /\ timeOut = None
    /\ env = None
    /\ path = None

NextTime == ExpandTime

SpecTime == InitTime /\ [][NextTime]_vars

----------------------------------------------------------------------------
(* storage/src/lib.rs: the directories of the Aleo storage *)

MaxNetwork == 1       \* SpecStorage: network ids 0..MaxNetwork, and 65535
MaxDev == 1           \* SpecStorage: development ids 0..MaxDev
MaxWorker == 1        \* SpecStorage: worker ids 0..MaxWorker

ALEO_DIRECTORY == ".aleo"

Networks == 0..MaxNetwork \cup {65535}
Devs == {None} \cup {Some(id) : id \in 0..MaxDev}
Workers == 0..MaxWorker

\* A path is the sequence of its components.  The machine the program runs
\* on: the home directory, when there is one, and the manifest of the cargo
\* workspace as cargo locate-project prints it.
Homes == {None, Some(<<"home", "alice">>)}
Manifests == {<<"work", "snarkOS", "Cargo.toml">>, <<"Cargo.toml">>}

\* PathBuf::push of a relative component
push(p, component) == Append(p, component)

\* PathBuf::pop
pop(p) == IF p = <<>> THEN p ELSE SubSeq(p, 1, Len(p) - 1)

\* workspace_dir: the path of the manifest without its last component.
workspace_dir == pop(env[1].manifest)

home_dir == env[1].home

\* aleo_dir looking at the home directory before dev.
aleo_dir_home_first(dev) ==
    push(IF home_dir # None THEN home_dir[1] ELSE workspace_dir, ALEO_DIRECTORY)

\* aleo_dir
aleo_dir(dev) ==
    push(IF dev # None \/ home_dir = None THEN workspace_dir ELSE home_dir[1],
         ALEO_DIRECTORY)

aleo_base_storage_dir(dev) == push(aleo_dir(dev), "storage")

aleo_ledger_dir(network, dev) ==
    push(aleo_base_storage_dir(dev),
         IF dev # None
         THEN "ledger-" \o Display(network) \o "-" \o Display(dev[1])
         ELSE "ledger-" \o Display(network))

aleo_prover_dir(network, dev) ==
    push(aleo_base_storage_dir(dev),
         IF dev # None
         THEN "prover-" \o Display(network) \o "-" \o Display(dev[1])
         ELSE "prover-" \o Display(network))

aleo_bft_dir(network, dev) ==
    push(aleo_base_storage_dir(dev),
         IF dev # None
         THEN "bft-" \o Display(network) \o "-" \o Display(dev[1])
         ELSE "bft-" \o Display(network))

aleo_bft_primary_dir(network, dev) == push(aleo_bft_dir(network, dev), "primary")

aleo_bft_worker_dir(network, worker_id, dev) ==
    push(aleo_bft_dir(network, dev), "worker-" \o Display(worker_id))

StorageFrame == UNCHANGED <<now, NUM_INDENT, timers, out, calls, pc, dur, rendered,
                            item, tokens, exec, attr, timeOut, env>>

Asked(f, network, worker_id, dev, result) ==
    Some([f |-> f, network |-> network, worker_id |-> worker_id, dev |-> dev,
          result |-> result])

LedgerDir(network, dev) ==
    /\ path' = Asked("aleo_ledger_dir", network, 0, dev, aleo_ledger_dir(network, dev))
    /\ StorageFrame

ProverDir(network, dev) ==
    /\ path' = Asked("aleo_prover_dir", network, 0, dev, aleo_prover_dir(network, dev))
    /\ StorageFrame

BftDir(network, dev) ==
    /\ path' = Asked("aleo_bft_dir", network, 0, dev, aleo_bft_dir(network, dev))
    /\ StorageFrame

BftPrimaryDir(network, dev) ==
    /\ path' = Asked("aleo_bft_primary_dir", network, 0, dev,
                     aleo_bft_primary_dir(network, dev))
    /\ StorageFrame

BftWorkerDir(network, worker_id, dev) ==
    /\ path' = Asked("aleo_bft_worker_dir", network, worker_id, dev,
                     aleo_bft_worker_dir(network, worker_id, dev))
    /\ StorageFrame

InitStorage ==
    /\ now = 0
    /\ NUM_INDENT = 0
    /\ timers = [t \in TimerIds |-> Unborn]
    /\ out = <<>>
    /\ calls = [t \in TimerIds |-> NoCalls]
    /\ pc = [th \in Threads |-> Idle]
    /\ dur = [secs |-> 0, nanos |-> 0]
    /\ rendered = None
    /\ item = None
    /\ tokens = None
    /\ exec = None
    /\ attr = None
    /\ timeOut = None
    /\ env \in {Some([home |-> h, manifest |-> m]) : h \in Homes, m \in Manifests}
    /\ path = None

NextStorage ==
    \/ \E network \in Networks, dev \in Devs : LedgerDir(network, dev)
    \/ \E network \in Networks, dev \in Devs : ProverDir(network, dev)
    \/ \E network \in Networks, dev \in Devs : BftDir(network, dev)
    \/ \E network \in Networks, dev \in Devs : BftPrimaryDir(network, dev)
    \/ \E network \in Networks, worker_id \in Workers, dev \in Devs :
          BftWorkerDir(network, worker_id, dev)

SpecStorage == InitStorage /\ [][NextStorage]_vars

----------------------------------------------------------------------------
(* What the claims speak about *)

\* The positions in out of the lines of Timer t with the given status word.
LinesOf(t, word) == {i \in 1..Len(out) : out[i].timer = t /\ out[i].status.word = word}

FinishLines(t) == Cardinality(LinesOf(t, "Finish"))

LastLine(o) == o[Len(o)]

\* The step is a call of finish on t, a call of lap on t, the drop of t, the
\* construction of t, the first finalize of t.
FinishCall(t) == calls'[t].finish = calls[t].finish + 1
LapCall(t) == calls'[t].lap = calls[t].lap + 1
DropStep(t) == timers[t].life = "live" /\ timers'[t].life = "dropped"
NewStep(t) == timers[t].life = "unborn" /\ timers'[t].life = "live"
Finalize(t) == ~timers[t].finished /\ timers'[t].finished

\* One line is printed by the step, and it is a line of t with this status word.
Prints(t, word) ==
    /\ Len(out') = Len(out) + 1
    /\ SubSeq(out', 1, Len(out)) = out
    /\ LastLine(out').timer = t
    /\ LastLine(out').status.word = word

\* The Timers constructed and not yet finalized.
Unfinalized == {u \in TimerIds : timers[u].life # "unborn" /\ ~timers[u].finished}

\* The nanoseconds reported on line i of out.
Reported(i) == AsNanos(out[i].elapsed[1])

\* The sum of the lap deltas of t reported before line f.
LapSumBefore(t, f) ==
    Sum([i \in 1..Len(out) |-> Reported(i)], {i \in LinesOf(t, "Lap") : i < f})

----------------------------------------------------------------------------
(* C1..C10 *)

\* C1: once finish has been called on a Timer, however often, with or without a
\* message and with laps in between, there is exactly one Finish line of that
\* Timer; the call that finds finished unset prints it, and every call that
\* finds finished set prints nothing and changes no state.
C1_FinishIdempotent ==
    /\ [](\A t \in TimerIds : calls[t].finish >= 1 => FinishLines(t) = 1)
    /\ [][\A t \in TimerIds : FinishCall(t) =>
            IF timers[t].finished
            THEN UNCHANGED <<now, NUM_INDENT, timers, out>>
            ELSE Prints(t, "Finish") /\ FinishLines(t) = 0]_vars

C1_Witness ==
    \E t \in TimerIds :
        /\ calls[t].finish >= 2
        /\ calls[t].lap >= 1
        /\ FinishLines(t) = 1
        /\ \E i \in LinesOf(t, "Finish") : out[i].message = "Load, done"

\* C2: dropping a Timer runs finish(None): a Timer dropped with finished unset
\* prints one Finish line without a message at the drop, a Timer dropped after a
\* finish prints nothing, and a dropped Timer has printed exactly one Finish
\* line over its whole life (a live one at most one).
C2_DropFinalizes ==
    /\ [](\A t \in TimerIds :
            /\ timers[t].life = "dropped" => FinishLines(t) = 1
            /\ FinishLines(t) <= 1)
    /\ [][\A t \in TimerIds : DropStep(t) =>
            IF timers[t].finished
            THEN UNCHANGED <<NUM_INDENT, out>>
            ELSE /\ out' = Append(out, FormatFinish(t, timers[t], None, now))
                 /\ NUM_INDENT' = NUM_INDENT - 1
                 /\ timers'[t].finished]_vars

C2_Witness ==
    \E t \in TimerIds :
        /\ timers[t].life = "dropped"
        /\ calls[t].finish = 0
        /\ calls[t].lap >= 1
        /\ FinishLines(t) = 1
        /\ LastLine(out).status.word = "Finish"

\* C3: when several threads call finish on the same Timer, one call at most
\* finalizes: no Timer has two Finish lines, and NUM_INDENT is decremented once
\* per Timer, so it never drops below zero (never wraps).
C3_OneFinalizeUnderThreads ==
    /\ \A t \in TimerIds : FinishLines(t) <= 1
    /\ NUM_INDENT >= 0

\* C4: Timer::new adds one to NUM_INDENT; a finish or drop that finds finished
\* unset sets it and takes one from NUM_INDENT; a finish or drop that finds
\* finished set leaves NUM_INDENT as it is.
C4_IndentCounting ==
    [][\A t \in TimerIds :
        /\ NewStep(t) => NUM_INDENT' = NUM_INDENT + 1
        /\ (FinishCall(t) \/ DropStep(t)) =>
              /\ timers'[t].finished
              /\ NUM_INDENT' = IF timers[t].finished THEN NUM_INDENT
                               ELSE NUM_INDENT - 1]_vars

C4_Witness ==
    \E t, u \in TimerIds :
        /\ t # u
        /\ calls[t].finish >= 2
        /\ timers[t].life = "dropped"
        /\ timers[u].life = "live" /\ ~timers[u].finished
        /\ NUM_INDENT = 1

\* C5: a Timer's indent is NUM_INDENT as read at its construction, which is the
\* number of Timers constructed before it and not yet finalized; it never
\* changes, and the Start and Finish lines of the Timer are indented by it.
C5_IndentCaptured ==
    /\ [](\A i \in 1..Len(out) :
            out[i].status.word \in {"Start", "Finish"} =>
                /\ out[i].indentation = 4 * timers[out[i].timer].indent
                /\ out[i].status.color = timers[out[i].timer].indent % 5)
    /\ [][\A t \in TimerIds :
            /\ NewStep(t) => /\ timers'[t].indent = NUM_INDENT
                             /\ timers'[t].indent = Cardinality(Unfinalized)
            /\ timers[t].life # "unborn" => timers'[t].indent = timers[t].indent]_vars

\* The outer Timer finishes before the inner one, which keeps its indent of 1.
C5_Witness ==
    /\ timers[1].indent = 0 /\ timers[2].indent = 1
    /\ timers[1].finished /\ timers[2].finished
    /\ \E i \in LinesOf(1, "Finish"), j \in LinesOf(2, "Finish") :
          i < j /\ out[j].indentation = 4

\* C6: a lap call reports the time from last_lap_time to the clock reading of
\* the call and then sets last_lap_time to the current time; last_lap_time
\* never decreases and is never later than the clock.
C6_LapSinceLastLap ==
    /\ [](\A t \in TimerIds : timers[t].life # "unborn" =>
            /\ timers[t].start_time <= timers[t].last_lap_time
            /\ timers[t].last_lap_time <= now)
    /\ [][\A t \in TimerIds :
            /\ LapCall(t) =>
                  /\ Prints(t, "Lap")
                  /\ LastLine(out').elapsed =
                        Some(DurationBetween(now, timers[t].last_lap_time))
                  /\ timers'[t].last_lap_time = now'
            /\ timers[t].life # "unborn" =>
                  timers'[t].last_lap_time >= timers[t].last_lap_time]_vars

\* The second lap reports less than the time since start.
C6_Witness ==
    \E t \in TimerIds : \E i, j \in LinesOf(t, "Lap") :
        /\ i < j
        /\ Reported(i) >= 1
        /\ Reported(j) >= 1
        /\ j = Len(out)
        /\ Reported(j) < timers[t].last_lap_time - timers[t].start_time

\* C7: a lap call, at any point of the Timer's life, prints exactly one Lap line
\* and leaves finished, indent, start_time and NUM_INDENT as they were.
C7_LapFrame ==
    [][\A t \in TimerIds : LapCall(t) =>
          /\ Prints(t, "Lap")
          /\ timers'[t].finished = timers[t].finished
          /\ timers'[t].indent = timers[t].indent
          /\ timers'[t].start_time = timers[t].start_time
          /\ timers'[t].life = timers[t].life
          /\ NUM_INDENT' = NUM_INDENT]_vars

\* A lap before and a lap after the finish.
C7_Witness ==
    \E t \in TimerIds : \E i, j \in LinesOf(t, "Lap"), f \in LinesOf(t, "Finish") :
        /\ i < f /\ f < j
        /\ timers[t].finished
        /\ timers[t].life = "live"
        /\ NUM_INDENT = 0

\* C8: the Finish line reports the time from start_time to the clock reading of
\* the finalize, whatever last_lap_time is.
C8_FinishSinceStart ==
    [][\A t \in TimerIds : Finalize(t) =>
          /\ Prints(t, "Finish")
          /\ LastLine(out').elapsed = Some(DurationBetween(now, timers[t].start_time))
          /\ LastLine(out').text = elapsed(DurationBetween(now, timers[t].start_time))]_vars

\* Finalized after last_lap_time has moved away from start_time.
C8_Witness ==
    \E t \in TimerIds :
        /\ Len(out) > 0
        /\ LastLine(out).timer = t
        /\ LastLine(out).status.word = "Finish"
        /\ timers[t].last_lap_time > timers[t].start_time
        /\ timers[t].last_lap_time < now
        /\ Reported(Len(out)) = now - timers[t].start_time

\* C9: the clock never goes back, so every lap delta is non-negative, and the
\* lap deltas printed before a Timer's Finish line sum to no more than the
\* total on the Finish line.
C9_LapSumWithinTotal ==
    \A t \in TimerIds :
        /\ \A i \in LinesOf(t, "Lap") : Reported(i) >= 0
        /\ \A f \in LinesOf(t, "Finish") : LapSumBefore(t, f) <= Reported(f)

\* Two positive laps, then a finish whose total is larger than their sum.
C9_Witness ==
    \E t \in TimerIds : \E f \in LinesOf(t, "Finish") :
        /\ \E i, j \in LinesOf(t, "Lap") :
              i < j /\ j < f /\ Reported(i) >= 1 /\ Reported(j) >= 1
        /\ LapSumBefore(t, f) >= 2
        /\ LapSumBefore(t, f) < Reported(f)

\* Three digits, zero-padded.
C10_Three(x) ==
    ToString(x \div 100) \o ToString((x \div 10) % 10) \o ToString(x % 10)

\* The rendering rule as the documentation states it.
C10_Rule(d) ==
    LET s == d.secs
        ms == d.nanos \div 1000000
        us == d.nanos \div 1000
    IN  IF s > 0 THEN ToString(s) \o "." \o C10_Three(ms) \o "s"
        ELSE IF ms > 0 THEN ToString(ms) \o "." \o C10_Three(us % 1000) \o "ms"
        ELSE IF us > 0 THEN ToString(us) \o "." \o C10_Three(d.nanos % 1000) \o "µs"
        ELSE ToString(d.nanos) \o "ns"

\* The renderings the documentation quotes.
C10_Quoted ==
    {<<0, 0, "0ns">>, <<0, 500, "500ns">>, <<0, 1500, "1.500µs">>,
     <<0, 1000000, "1.000ms">>, <<0, 2500000, "2.500ms">>,
     <<1, 0, "1.000s">>, <<1, 200000000, "1.200s">>}

\* C10: a Duration renders as seconds with 3-digit milliseconds when it has
\* whole seconds, else as milliseconds with 3-digit microseconds, else as
\* microseconds with 3-digit nanoseconds, else as plain nanoseconds; Lap
\* (elapsed_colored) and Finish (elapsed) render the same text; the quoted
\* examples come out as quoted.
C10_DurationRendering ==
    rendered # None =>
        /\ rendered[1].plain = C10_Rule(dur)
        /\ rendered[1].colored.text = C10_Rule(dur)
        /\ \A q \in C10_Quoted :
              (dur.secs = q[1] /\ dur.nanos = q[2]) => rendered[1].plain = q[3]

C10_Witness ==
    /\ rendered # None
    /\ dur = [secs |-> 0, nanos |-> 2500000]
    /\ rendered[1].plain = "2.500ms"
    /\ rendered[1].colored.color = "yellow"

----------------------------------------------------------------------------
(* C11..C20 *)

\* C11: without the timer feature the three macros take the calls the live
\* macros take (the same arms, on a Timer in the same stage of its life), and
\* nothing they do is visible: no line is printed, NUM_INDENT stays 0, every
\* Timer is the inert default value, and dropping it prints nothing.
C11_NoopEquivalent ==
    /\ out = <<>>
    /\ NUM_INDENT = 0
    /\ now = 0
    /\ \A t \in TimerIds : timers[t] \in {Unborn, InertTimer, [Unborn EXCEPT !.life = "dropped"]}
    /\ \A n \in 0..(MaxMacroArgs + 1) :
          /\ (noop_arm("timer", n) # 0) = (live_arm("timer", n) # 0)
          /\ (ENABLED NoopTimerMacro(n)) =
                (live_arm("timer", n) # 0 /\ ENABLED New("Load", None))
          /\ \A t \in TimerIds :
                /\ (ENABLED NoopLap(t, n)) =
                      (live_arm("lap", n) # 0 /\ ENABLED Lap(t, None, 0))
                /\ (ENABLED NoopFinish(t, n)) =
                      (live_arm("finish", n) # 0 /\ ENABLED Finish(t, None))
                /\ (ENABLED NoopDrop(t)) = (ENABLED Drop(t))

C11_Witness ==
    /\ timers[1].life = "dropped"
    /\ calls[1].lap >= 1
    /\ calls[1].finish >= 1
    /\ timers[2] = InertTimer
    /\ out = <<>>
    /\ NUM_INDENT = 0


Expanded == item # None /\ tokens # None /\ tokens[1].kind = "fn"
SetupLen == 4
MarksOf(o) == {i \in 1..Len(o) : o[i].kind = "mark"}
OfKind(o, k) == {i \in 1..Len(o) : o[i].kind = k}

\* C12: for a body s1..sn with n > 0 the rewritten body is the setup block,
\* then the original statements in their order, none dropped or duplicated,
\* each followed by exactly one mark call (the last one wrapped in the
\* binding of return_stmt), and the return after the last mark.
C12_RewriteShape ==
    (Expanded /\ Body # <<>>) =>
        LET n == Len(Body)
            o == NewStmts
        IN  /\ Len(o) = SetupLen + 2 * n + 1
            /\ SubSeq(o, 1, SetupLen) = setup(item[1].name)
            /\ \A i \in 1..n :
                  /\ o[SetupLen + 2 * i - 1] =
                        [kind |-> IF i < n THEN "stmt" ELSE "let_return_stmt",
                         stmt |-> Body[i]]
                  /\ o[SetupLen + 2 * i].kind = "mark"
            /\ o[Len(o)].kind = "return"
            /\ Cardinality(MarksOf(o)) = n
            /\ Cardinality(OfKind(o, "stmt")) = n - 1
            /\ Cardinality(OfKind(o, "let_return_stmt")) = 1
            /\ Cardinality(OfKind(o, "return")) = 1

C12_Witness ==
    /\ Expanded
    /\ Len(Body) = 3
    /\ Body[1] # Body[2]
    /\ Body[2] # Body[3]

\* C13: for an empty body the rewritten body is the setup block alone: the
\* construction of the accumulator is its only statement to run, and there
\* is no mark call, no binding of return_stmt and no return.
C13_EmptyBody ==
    (Expanded /\ Body = <<>>) =>
        /\ NewStmts = setup(item[1].name)
        /\ OfKind(NewStmts, "let_timed") = {Len(NewStmts)}
        /\ \A i \in 1..Len(NewStmts) : NewStmts[i].kind \in {"item", "let_timed"}

C13_Witness ==
    /\ Expanded
    /\ Body = <<>>
    /\ item[1].syn.kind = "impl_fn"

\* The label text of each statement of the alphabet, written out.
C14_Label ==
    (S_short.text :> "let x = 1 ;")
    @@ (S_45.text :> "let total = alpha + beta + gamma + delta_45 ;")
    @@ (S_46.text :> "let total = alpha + beta + gamma + delta_046 ...")
    @@ (S_mu.text :> "let unit = \"~s\" ; let scale = 1_000 * 1_000 ;")
    @@ (S_nl.text :> "let text = \"a b\" ;")
    @@ (S_ret.text :> "return 0 ;")

EndsWith(str, e) ==
    /\ Len(str) >= Len(e)
    /\ SubSeq(str, Len(str) - Len(e) + 1, Len(str)) = e

HasChar(str, c) == \E i \in 1..Len(str) : SubSeq(str, i, i) = c

\* C14: the text of a label is the text of its statement when that has at
\* most 45 characters, and its first 45 characters followed by "..." when it
\* has more; the length is counted in characters, and the label holds no
\* line break.
C14_Truncate ==
    Expanded =>
        \A i \in 1..Len(Body) :
            LET short == NewStmts[SetupLen + 2 * i].short
                text == Body[i].text
            IN  /\ EndsWith(short, C14_Label[text])
                /\ ~HasChar(short, "\n")
                /\ (Len(text) <= 45 /\ ~HasChar(text, "\n")) => EndsWith(short, text)
                /\ Len(text) > 45 =>
                      EndsWith(short, SubSeq(text, 1, 45) \o "...")

C14_Witness ==
    /\ Expanded
    /\ Body = <<S_46, S_45, S_46>>
    /\ NewStmts[SetupLen + 6].short = "let total = alpha + beta + gamma + delta_046 ..."

\* C15: the last statement becomes the binding of return_stmt, then a mark
\* call whose label is built by the rule of the labels before it, then the
\* return of return_stmt.
C15_LastLabelSameRule ==
    (Expanded /\ Body # <<>>) =>
        LET n == Len(Body)
            o == NewStmts
        IN  /\ o[Len(o) - 2] = [kind |-> "let_return_stmt", stmt |-> Body[n]]
            /\ o[Len(o) - 1] =
                  MarkStmt("L" \o Display(n - 1) \o ": " \o truncate(Body[n], LENGTH))
            /\ o[Len(o)] = [kind |-> "return"]

\* C17: a plain function, a trait method with a default body and a method
\* of an inherent impl are rewritten; every other item, a trait method
\* without a default body among them, makes the attribute panic, and no
\* item comes back as it went in.
C17_Shapes ==
    (item # None /\ tokens # None) =>
        /\ (item[1].syn.kind \in {"fn", "trait_default", "impl_fn"}) =>
              tokens[1] = [kind |-> "fn",
                           stmts |-> rewrite_stmts(item[1].name, Body)]
        /\ (item[1].syn.kind \notin {"fn", "trait_default", "impl_fn"}) =>
              tokens[1].kind = "panic"
        /\ tokens[1].kind = "fn" =>
              /\ NewStmts # Body
              /\ OfKind(NewStmts, "let_timed") # {}

C17_Witness ==
    /\ item # None
    /\ tokens # None
    /\ item[1].syn.kind = "trait_required"
    /\ tokens[1].kind = "panic"
    /\ Body # <<>>


\* The first statement of the body that leaves the function, 0 when none does.
FirstExit(stmts) ==
    IF \E i \in 1..Len(stmts) : stmts[i].exits
    THEN CHOOSE i \in 1..Len(stmts) :
            stmts[i].exits /\ \A j \in 1..(i - 1) : ~stmts[j].exits
    ELSE 0

StartsWith(str, b) == Len(str) >= Len(b) /\ SubSeq(str, 1, Len(b)) = b

\* The labels of the mark calls of the rewritten body, in their order.
RECURSIVE LabelsOf(_)
LabelsOf(o) ==
    IF o = <<>> THEN <<>>
    ELSE (IF o[1].kind = "mark" THEN <<o[1].short>> ELSE <<>>) \o LabelsOf(Tail(o))

\* What the call has printed is right: Start first, then the marks of the
\* statements that ran to their end, in statement order, then End.
C16_Printed ==
    (exec # None /\ tokens # None /\ item # None) =>
        LET e == exec[1]
            x == FirstExit(Body)
            k == IF x = 0 THEN Len(Body) ELSE x - 1
            labels == LabelsOf(NewStmts)
        IN  /\ Len(e.printed) <= 1
            /\ (e.status = "done") = (Len(e.printed) = 1)
            /\ e.printed # <<>> =>
                  LET buffer == e.printed[1]
                  IN  /\ Len(buffer) = k + 2
                      /\ buffer[1] = "Start: 'foo'"
                      /\ StartsWith(buffer[Len(buffer)], "End: 'foo' took ")
                      /\ \A i \in 1..k :
                            StartsWith(buffer[i + 1], "    " \o labels[i] \o " ")
                      /\ (x = 0 /\ Body # <<>>) =>
                            /\ e.return_stmt = Some(Body[Len(Body)].text)
                            /\ e.result = e.return_stmt

\* C16: in a call of the rewritten function the accumulator is dropped
\* exactly once; the drop writes the End line and prints the buffer, after
\* every mark of the call and after the return value is bound; what is
\* printed is the Start line, the mark lines in statement order, the End
\* line; nothing happens to the accumulator afterwards.
C16_DropOnceLast ==
    /\ []C16_Printed
    /\ [][(exec # None /\ exec[1].printed # <<>>) => exec' = exec]_vars

C16_Witness ==
    /\ exec # None
    /\ exec[1].status = "done"
    /\ Body = <<S_short, S_46, S_short>>
    /\ Len(exec[1].printed[1]) = 5
    /\ exec[1].printed[1][5] = "End: 'foo' took 3ns"
    /\ exec[1].result = Some(S_short.text)


\* The message of a line as the documentation gives it: the name, then
\* extra_info when there is one, then the message of the call when there is
\* one.
C18_Message(self, args) ==
    self.name
        \o (IF self.extra_info = None THEN "" ELSE ", " \o self.extra_info[1])
        \o (IF args = None THEN "" ELSE ", " \o args[1])

C18_Appends(word, self, args) ==
    /\ Len(out') = Len(out) + 1
    /\ SubSeq(out', 1, Len(out)) = out
    /\ LastLine(out').status.word = word
    /\ LastLine(out').message = C18_Message(self, args)

\* C18: a Timer named N prints one Start line when it is constructed, one Lap
\* line for each call of lap, in the order of the calls, and one Finish line
\* when it is finalized; each line holds N, then extra_info when there is
\* one, then the message of the call when there is one.
C18_LineSequence ==
    /\ [](\A t \in TimerIds :
            /\ Cardinality(LinesOf(t, "Start")) = IF timers[t].life = "unborn" THEN 0 ELSE 1
            /\ Cardinality(LinesOf(t, "Lap")) = calls[t].lap
            /\ FinishLines(t) = IF timers[t].life # "unborn" /\ timers[t].finished
                                THEN 1 ELSE 0
            /\ \A i \in 1..Len(out) :
                  (out[i].timer = t /\ out[i].status.word # "Start") =>
                      \E j \in 1..(i - 1) : out[j].timer = t /\ out[j].status.word = "Start")
    /\ [][/\ \A name \in Names, extra_info \in ExtraInfos :
                New(name, extra_info) =>
                    C18_Appends("Start", [name |-> name, extra_info |-> extra_info], None)
          /\ \A t \in TimerIds, args \in LapMessages, d \in 0..1 :
                Lap(t, args, d) => C18_Appends("Lap", timers[t], args)
          /\ \A t \in TimerIds, args \in Messages :
                Finish(t, args) =>
                    IF timers[t].finished THEN out' = out
                    ELSE C18_Appends("Finish", timers[t], args)
          /\ \A t \in TimerIds :
                Drop(t) =>
                    IF timers[t].finished THEN out' = out
                    ELSE C18_Appends("Finish", timers[t], None)]_vars

C18_Witness ==
    /\ Len(out) = 4
    /\ [i \in 1..4 |-> out[i].status.word] = <<"Start", "Lap", "Lap", "Finish">>
    /\ [i \in 1..4 |-> out[i].message] = <<"Load", "Load", "Load, phase2", "Load, done">>

C18_WitnessInfo ==
    /\ Len(out) = 3
    /\ [i \in 1..3 |-> out[i].message] =
          <<"Load, n=42", "Load, n=42, phase2", "Load, n=42, done">>


\* The arguments of the attribute as the documentation speaks of them: the
\* string of each literal, written out.
C19_Arg ==
    (Lit("debug").text :> "debug") @@ (Lit("Info").text :> "Info")
    @@ (Lit("NEVER").text :> "NEVER") @@ (Lit(" warn ").text :> "warn")
    @@ (Lit("verbose").text :> "verbose")
    @@ (Lit("FirstStruct::{}").text :> "FirstStruct::{}")
    @@ (Lit("{}::{}").text :> "{}::{}") @@ (Lit("").text :> "")

\* The level an argument names, in any casing; "" when it names none.
C19_Level ==
    ("debug" :> "debug") @@ ("Info" :> "info") @@ ("NEVER" :> "never")
    @@ ("warn" :> "warn") @@ ("verbose" :> "") @@ ("FirstStruct::{}" :> "")
    @@ ("{}::{}" :> "") @@ ("" :> "")

\* The name of the timer for fn new, by pattern.
C19_Name ==
    ("{}" :> "new()") @@ ("FirstStruct::{}" :> "FirstStruct::new()")
    @@ ("{}::{}" :> "new()::{}") @@ ("verbose" :> "verbose") @@ ("" :> "")
    @@ ("debug" :> "debug") @@ ("Info" :> "Info") @@ ("NEVER" :> "NEVER")
    @@ ("warn" :> "warn")

C19_Args ==
    LET m == attr[1].metadata
        lits == SelectSeq(m, LAMBDA tt : tt.kind = "Literal")
    IN  [i \in 1..Len(lits) |-> C19_Arg[lits[i].text]]

\* What the attribute does for the level and the pattern it has read.
C19_Outcome(rejected, level, pattern) ==
    LET o == timeOut[1]
    IN  IF rejected THEN o.kind = "panic"
        ELSE IF level = "never"
             THEN o = [kind |-> "unchanged", prelude |-> <<>>,
                       block |-> attr[1].input.block]
        ELSE IF attr[1].input.is_fn
             THEN o = [kind |-> "wrapped",
                       prelude |-> <<[kind |-> "let_tmr",
                                      timer_name |-> C19_Name[pattern]]>>,
                       block |-> attr[1].input.block]
        ELSE o.kind = "compile_error"

C19_Reading(emptySecond) ==
    (attr # None /\ timeOut # None) =>
        LET a == C19_Args
        IN  CASE Len(a) = 0 -> C19_Outcome(FALSE, "debug", "{}")
              [] Len(a) = 1 ->
                    IF C19_Level[a[1]] # ""
                    THEN C19_Outcome(FALSE, C19_Level[a[1]], "{}")
                    ELSE C19_Outcome(FALSE, "debug", a[1])
              [] Len(a) = 2 ->
                    IF C19_Level[a[1]] # ""
                    THEN C19_Outcome(FALSE, C19_Level[a[1]],
                                     IF a[2] = "" THEN emptySecond ELSE a[2])
                    ELSE C19_Outcome(TRUE, "", "")
              [] OTHER -> C19_Outcome(TRUE, "", "")

\* C19 as stated: no argument gives level "debug" and pattern "{}"; one
\* argument is the level when it names one in any casing, the pattern
\* otherwise; of two arguments the first must name a level and the second is
\* the pattern; level "never" returns the function unchanged, any other
\* level puts exactly one timer before the body, named by the pattern with
\* its first "{}" replaced by the function name and "()"; more than two
\* literals, or two whose first names no level, are rejected.
C19_TimeArgsAsStated == C19_Reading("")

\* C19: as stated, and an empty second argument stands for the pattern "{}".
C19_TimeArgs == C19_Reading("{}")

C19_Witness ==
    /\ attr # None
    /\ timeOut # None
    /\ attr[1].metadata = <<Lit("Info"), [kind |-> "Punct", text |-> ","], Lit("")>>
    /\ attr[1].input.is_fn
    /\ timeOut[1].prelude = <<[kind |-> "let_tmr", timer_name |-> "new()"]>>

C19_WitnessPattern ==
    /\ attr # None
    /\ timeOut # None
    /\ attr[1].metadata = <<Lit("FirstStruct::{}")>>
    /\ timeOut[1].prelude = <<[kind |-> "let_tmr", timer_name |-> "FirstStruct::new()"]>>


\* The kind of storage each function is for, and the child it adds.
C20_Kind ==
    [f \in {"aleo_ledger_dir", "aleo_prover_dir", "aleo_bft_dir",
            "aleo_bft_primary_dir", "aleo_bft_worker_dir"} |->
        IF f = "aleo_ledger_dir" THEN "ledger"
        ELSE IF f = "aleo_prover_dir" THEN "prover" ELSE "bft"]

C20_Child(p) ==
    IF p.f = "aleo_bft_primary_dir" THEN <<"primary">>
    ELSE IF p.f = "aleo_bft_worker_dir" THEN <<"worker-" \o ToString(p.worker_id)>>
    ELSE <<>>

\* C20: the directory of kind k for network n is <aleo_dir>/storage/k-n in
\* production and <aleo_dir>/storage/k-n-id in development with id, where
\* <aleo_dir> is <home>/.aleo in production when there is a home directory
\* and <workspace>/.aleo otherwise; the primary and worker directories are
\* the children "primary" and "worker-<worker_id>" of the bft directory.
C20_StorageDirs ==
    (env # None /\ path # None) =>
        LET p == path[1]
            workspace == IF env[1].manifest = <<"Cargo.toml">> THEN <<>>
                         ELSE <<"work", "snarkOS">>
            base == IF p.dev = None /\ env[1].home # None THEN <<"home", "alice">>
                    ELSE workspace
            leaf == C20_Kind[p.f] \o "-" \o ToString(p.network)
                       \o (IF p.dev = None THEN "" ELSE "-" \o ToString(p.dev[1]))
        IN  p.result = base \o <<".aleo", "storage", leaf>> \o C20_Child(p)

C20_Witness ==
    /\ env # None
    /\ path # None
    /\ env[1].home # None
    /\ path[1].result = <<"work", "snarkOS", ".aleo", "storage", "bft-65535-1", "worker-1">>

C20_WitnessProduction ==
    /\ env # None
    /\ path # None
    /\ path[1].result = <<"home", "alice", ".aleo", "storage", "ledger-0">>


----------------------------------------------------------------------------
(* C21..C22 *)

\* C21: with one thread, whatever Timers are constructed, lapped, finished
\* and dropped, and in whatever order they are finalized, NUM_INDENT is the
\* number of Timers constructed and not yet finalized: zero before the first
\* construction, never below zero, and zero again when every constructed
\* Timer has been finalized.
C21_IndentIsUnfinalized ==
    /\ NUM_INDENT = Cardinality(Unfinalized)
    /\ NUM_INDENT >= 0
    /\ (\A t \in TimerIds : timers[t].life = "unborn") => NUM_INDENT = 0
    /\ (\A t \in TimerIds : timers[t].life # "unborn" => timers[t].finished) =>
          NUM_INDENT = 0

\* Two Timers, the outer finalized first by finish and dropped afterwards,
\* the inner finalized by its drop after a lap.
C21_Witness ==
    /\ NUM_INDENT = 0
    /\ timers[1].life = "dropped" /\ timers[2].life = "dropped"
    /\ calls[1].finish >= 1 /\ calls[2].finish = 0 /\ calls[2].lap >= 1
    /\ \E i \in LinesOf(1, "Finish"), j \in LinesOf(2, "Finish"), k \in LinesOf(2, "Start") :
          k < i /\ i < j

C21_WitnessNested ==
    /\ NUM_INDENT = MaxTimers
    /\ \A t \in TimerIds : timers[t].life = "live" /\ ~timers[t].finished


\* The nanoseconds a mark line reports, read off its text.
C22_Delta(line) ==
    CHOOSE d \in 0..MaxTime : EndsWith(line, "-" \o ToString(d) \o "ns")

\* The mark lines written so far: those of the buffer of timed, or of what
\* its drop has printed.
C22_MarkLines ==
    LET e == exec[1]
        buffer == IF e.timed # None THEN e.timed[1].buffer
                  ELSE IF e.printed # <<>>
                       THEN SubSeq(e.printed[1], 1, Len(e.printed[1]) - 1)
                  ELSE <<"">>
    IN  Tail(buffer)

\* C22: the first mark reports the time since the start of the accumulator
\* and every later mark the time since the mark before it; prev_mark holds
\* the time from the start to the latest mark; so, the clock never going
\* back, no mark reports less than zero, and the first k marks add up to the
\* time from the start to the k-th mark.
C22_MarkDeltas ==
    (exec # None /\ exec[1].started # None) =>
        LET e == exec[1]
            start == e.started[1]
            lines == C22_MarkLines
        IN  /\ Len(lines) = Len(e.reads)
            /\ \A k \in 1..Len(lines) :
                  LET since == e.reads[k] - start
                      before == IF k = 1 THEN start ELSE e.reads[k - 1]
                  IN  /\ EndsWith(lines[k],
                                  "-" \o ToString(e.reads[k] - before) \o "ns")
                      /\ C22_Delta(lines[k]) >= 0
                      /\ Sum([i \in 1..k |-> C22_Delta(lines[i])], 1..k) = since
            /\ e.timed # None =>
                  e.timed[1].prev_mark =
                      IF e.reads = <<>> THEN None
                      ELSE Some([secs |-> 0,
                                 nanos |-> e.reads[Len(e.reads)] - start])

\* Three marks, taken 1, 1 and 3 ticks after the start.
C22_Witness ==
    /\ exec # None
    /\ exec[1].started = Some(0)
    /\ exec[1].reads = <<1, 1, 3>>
    /\ exec[1].timed # None
    /\ exec[1].timed[1].prev_mark = Some([secs |-> 0, nanos |-> 3])
    /\ C22_Delta(exec[1].timed[1].buffer[4]) = 2

====
